---- MODULE Spec2Model ----
(***************************************************************************)
(* A model of npt.py (MinecraftPortalTools): the portal list loaded from   *)
(* the JSON data, the pure linkage functions, and the two commands         *)
(* show_connections and check_new_portal.                                  *)
(*                                                                         *)
(* Python values are rendered as follows.                                  *)
(*   Position, Portal   records with the namedtuples' field names          *)
(*   None               the empty sequence <<>>; a value that may be None  *)
(*                      is <<>> or the one-element sequence <<v>>          *)
(*   dict               the sequence of its <<key, value>> items in        *)
(*                      insertion order, as Python keeps them              *)
(*   str                strings; f-strings are built with \o and ToString  *)
(***************************************************************************)
EXTENDS Integers, Sequences, FiniteSets, TLC

(***************************************************************************)
(* Bounds of the model.                                                    *)
(***************************************************************************)
\* Largest number of portals in the loaded data (overworld + nether).
MaxPortals == 3
\* Largest --threshold given to check_new_portal.
MaxThreshold == 1
\* Largest number of portals in a list the link resolver is applied to.
MaxLinkPortals == 3
\* Overworld x ranges over -MaxCoord..MaxCoord in the candidacy harness.
MaxCoord == 150

(***************************************************************************)
(* Types (npt.py:7-8).                                                     *)
(***************************************************************************)
Position(x, y, z) == [x |-> x, y |-> y, z |-> z]

Portal(label, position, is_nether) ==
  [label |-> label, position |-> position, is_nether |-> is_nether]

None == <<>>

(***************************************************************************)
(* Coordinate conversion.  math.floor(v / 8) on a Python int is floor      *)
(* division (\div rounds toward minus infinity); math.floor(v * 8) is the  *)
(* product.                                                                *)
(***************************************************************************)
convert_to_nether(pos) == Position(pos.x \div 8, pos.y, pos.z \div 8)

convert_to_overworld(pos) == Position(pos.x * 8, pos.y, pos.z * 8)

get_converted_coordinates(portal) ==
  IF portal.is_nether
    THEN convert_to_overworld(portal.position)
    ELSE convert_to_nether(portal.position)

abs(n) == IF n < 0 THEN -n ELSE n

valid_portal_destination_strict(portal, pos) ==
  LET threshold == IF portal.is_nether THEN 128 ELSE 16
      converted_pos == get_converted_coordinates(portal)
  IN  /\ abs(converted_pos.x - pos.x) < threshold
      /\ abs(converted_pos.z - pos.z) < threshold

valid_portal_destination_swapped(portal, pos) ==
  LET threshold == IF portal.is_nether THEN 16 ELSE 128
      converted_pos == get_converted_coordinates(portal)
  IN  /\ abs(converted_pos.x - pos.x) <= threshold
      /\ abs(converted_pos.z - pos.z) <= threshold

valid_portal_destination(portal, pos) ==
  LET threshold == IF portal.is_nether THEN 128 ELSE 16
      converted_pos == get_converted_coordinates(portal)
  IN  /\ abs(converted_pos.x - pos.x) <= threshold
      /\ abs(converted_pos.z - pos.z) <= threshold

\* math.sqrt of the sum of squares.  The sum is an integer far below 2^51,
\* where the correctly rounded square root is strictly increasing, so the
\* code's only use of the distance, the comparison dist < min_dist, is the
\* comparison of the sums: the model keeps the radicand.
euclidean_dist(pos1, pos2) ==
    (pos2.x - pos1.x) * (pos2.x - pos1.x)
  + (pos2.y - pos1.y) * (pos2.y - pos1.y)
  + (pos2.z - pos1.z) * (pos2.z - pos1.z)

\* The global list `portals` is the parameter ps.
find_valid_portal_connections(portal, ps) ==
  SelectSeq(ps, LAMBDA p :
    /\ p # portal
    /\ portal.is_nether # p.is_nether
    /\ valid_portal_destination(portal, p.position))

closer_or_equal(dist, min_dist) == dist <= min_dist

\* The test of line 101.
closer(dist, min_dist) == dist < min_dist

\* The loop of lines 99-103 over the rest of `valid`.
RECURSIVE nearest(_, _, _, _)
nearest(converted_pos, rest, destination, min_dist) ==
  IF rest = <<>>
    THEN destination
    ELSE LET p == Head(rest)
             dist == euclidean_dist(converted_pos, p.position)
         IN  IF closer(dist, min_dist)
               THEN nearest(converted_pos, Tail(rest), p, dist)
               ELSE nearest(converted_pos, Tail(rest), destination, min_dist)

find_nether_connection(portal, ps) ==
  LET valid == find_valid_portal_connections(portal, ps)
  IN  IF Len(valid) = 0
        THEN None
        ELSE LET converted_pos == get_converted_coordinates(portal)
                 first == Head(valid)
             IN  <<nearest(converted_pos, Tail(valid), first,
                           euclidean_dist(converted_pos, first.position))>>

\* The first portal of that label, or None; with error=True an unknown name
\* raises (the caller models the raise).
get_portal_by_name(name, ps) ==
  LET found == SelectSeq(ps, LAMBDA p : p.label = name)
  IN  IF found = <<>> THEN None ELSE <<Head(found)>>

(***************************************************************************)
(* Strings.                                                                *)
(***************************************************************************)
\* str() of a Position namedtuple.
PositionText(pos) ==
  "Position(x=" \o ToString(pos.x) \o ", y=" \o ToString(pos.y)
                \o ", z=" \o ToString(pos.z) \o ")"

\* str() of a Portal namedtuple.
PortalText(portal) ==
  "Portal(label='" \o portal.label \o "', position="
     \o PositionText(portal.position) \o ", is_nether="
     \o (IF portal.is_nether THEN "True" ELSE "False") \o ")"

\* f"New portal near {get_converted_coordinates(portal)}"
NewPortalNear(portal) ==
  "New portal near " \o PositionText(get_converted_coordinates(portal))

\* f"{x}/{y}/{z}" of lines 272
CoordsText(pos) ==
  ToString(pos.x) \o "/" \o ToString(pos.y) \o "/" \o ToString(pos.z)

(***************************************************************************)
(* Dicts.                                                                  *)
(***************************************************************************)
EmptyDict == <<>>

\* d.keys(), in order.
Keys(d) == [i \in 1..Len(d) |-> d[i][1]]

\* k in d
Has(d, k) == \E i \in 1..Len(d) : d[i][1] = k

\* d[k], for a key of d.
Get(d, k) == d[CHOOSE i \in 1..Len(d) : d[i][1] = k][2]

\* d[k] = v: a new key goes last, a known key keeps its place.
Put(d, k, v) ==
  IF Has(d, k)
    THEN [i \in 1..Len(d) |-> IF d[i][1] = k THEN <<k, v>> ELSE d[i]]
    ELSE Append(d, <<k, v>>)

\* del d[k], for a key of d.
Del(d, k) == SelectSeq(d, LAMBDA item : item[1] # k)

overworld_of(ps) == SelectSeq(ps, LAMBDA p : p.is_nether = FALSE)

nether_of(ps) == SelectSeq(ps, LAMBDA p : p.is_nether = TRUE)

\* connection.label if connection else f"New portal near {...}"
link_value(connection, portal) ==
  IF connection # None THEN connection[1].label ELSE NewPortalNear(portal)

\* One of the loops of get_connections (and the first loop of
\* print_connections): connections[portal.label] = ... for each portal.
RECURSIVE fill_connections(_, _, _)
fill_connections(connections, list, ps) ==
  IF list = <<>>
    THEN connections
    ELSE LET portal == Head(list)
             connection == find_nether_connection(portal, ps)
         IN  fill_connections(
               Put(connections, portal.label, link_value(connection, portal)),
               Tail(list), ps)

get_connections(ps) ==
  fill_connections(fill_connections(EmptyDict, overworld_of(ps), ps),
                   nether_of(ps), ps)

(***************************************************************************)
(* print_connections (lines 131-184).                                      *)
(***************************************************************************)
\* A pass of the second loop (lines 143-149) that forgets line 146.
nether_step_keeps_entry(st, portal, ps) ==
  LET connection == find_nether_connection(portal, ps)
  IN  IF connection = None
        THEN [st EXCEPT !.raised = TRUE]
        ELSE LET label == connection[1].label
                 existing_conn == IF Has(st.connections, label)
                                    THEN <<Get(st.connections, label)>>
                                    ELSE None
             IN  IF existing_conn = <<portal.label>>
                   THEN [st EXCEPT !.bidirectional =
                                      Append(@, <<label, portal.label>>)]
                   ELSE [st EXCEPT !.connections =
                                      Put(@, portal.label,
                                          link_value(connection, portal))]

\* One pass of the second loop (lines 143-149) for one nether portal.  Line
\* 144 reads connection.label before any test of connection: with
\* connection None that raises AttributeError and the loop is left.
nether_step(st, portal, ps) ==
  LET connection == find_nether_connection(portal, ps)
  IN  IF connection = None
        THEN [st EXCEPT !.raised = TRUE]
        ELSE LET label == connection[1].label
                 existing_conn == IF Has(st.connections, label)
                                    THEN <<Get(st.connections, label)>>
                                    ELSE None
             IN  IF existing_conn = <<portal.label>>
                   THEN [st EXCEPT !.connections = Del(@, label),
                                   !.bidirectional =
                                      Append(@, <<label, portal.label>>)]
                   ELSE [st EXCEPT !.connections =
                                      Put(@, portal.label,
                                          link_value(connection, portal))]

\* The second loop (lines 142-149), left at the first raise.
RECURSIVE nether_loop(_, _, _)
nether_loop(st, list, ps) ==
  IF list = <<>> \/ st.raised
    THEN st
    ELSE nether_loop(nether_step(st, Head(list), ps), Tail(list), ps)

\* Lines 151-159: with a target, keep the entries whose key or value is the
\* target's label and the pairs that hold it.
filter_target(st, target) ==
  IF target = None
    THEN st
    ELSE LET name == target[1].label
         IN  [st EXCEPT !.connections =
                           SelectSeq(@, LAMBDA item :
                             ~(item[1] # name /\ item[2] # name)),
                        !.bidirectional =
                           SelectSeq(@, LAMBDA p : p[1] = name \/ p[2] = name)]

\* The lines of one "... portals:" section (lines 171-174, 180-183).
RECURSIVE section_lines(_, _)
section_lines(list, conns) ==
  IF list = <<>>
    THEN <<>>
    ELSE LET portal == Head(list)
         IN  (IF ~Has(conns, portal.label)
                THEN <<>>
                ELSE <<portal.label \o " -> " \o Get(conns, portal.label)>>)
             \o section_lines(Tail(list), conns)

\* Lines 161-184.
render_lines(conns, bidir, ps) ==
     <<"-----------------------", "Bi-directional portals:",
       "-----------------------">>
  \o [i \in 1..Len(bidir) |-> bidir[i][1] \o " <-> " \o bidir[i][2]]
  \o <<"\n", "-----------------------", "Overworld portals:",
       "-----------------------">>
  \o section_lines(overworld_of(ps), conns)
  \o <<"\n", "-----------------------", "Nether portals:",
       "-----------------------">>
  \o section_lines(nether_of(ps), conns)
  \o <<"\n">>

(***************************************************************************)
(* check_new_portal (lines 190-243), its parts.                            *)
(***************************************************************************)
parse_coords(coords) == Position(coords[1], coords[2], coords[3])

\* Lines 195-198, through print_if.
header_lines(overworld_pos, nether_pos) ==
  <<"Checking portals...", "Overworld: " \o PositionText(overworld_pos),
    "Nether: " \o PositionText(nether_pos), "">>

print_if(silent, lines) == IF silent THEN <<>> ELSE lines

\* The condition of line 201.
outside_window(overworld_pos, nether_pos) ==
  LET converted == convert_to_nether(overworld_pos)
  IN  \/ nether_pos.x > converted.x + 16
      \/ nether_pos.x < converted.x - 16
      \/ nether_pos.z > converted.z + 16
      \/ nether_pos.z < converted.z - 16

\* The collision test with the two proposed positions exchanged.
collides_exchanged(portal, overworld_pos, nether_pos) ==
  \/ /\ portal.is_nether = FALSE
     /\ portal.position.x = nether_pos.x
     /\ portal.position.y = nether_pos.y
     /\ portal.position.z = nether_pos.z
  \/ /\ portal.is_nether = TRUE
     /\ portal.position.x = overworld_pos.x
     /\ portal.position.y = overworld_pos.y
     /\ portal.position.z = overworld_pos.z

\* The conditions of lines 206 and 209.
collides(portal, overworld_pos, nether_pos) ==
  \/ /\ portal.is_nether = FALSE
     /\ portal.position.x = overworld_pos.x
     /\ portal.position.y = overworld_pos.y
     /\ portal.position.z = overworld_pos.z
  \/ /\ portal.is_nether = TRUE
     /\ portal.position.x = nether_pos.x
     /\ portal.position.y = nether_pos.y
     /\ portal.position.z = nether_pos.z

\* The loop of lines 205-211: the first portal of the list that collides.
first_collision(ps, overworld_pos, nether_pos) ==
  LET hits == SelectSeq(ps, LAMBDA p : collides(p, overworld_pos, nether_pos))
  IN  IF hits = <<>> THEN None ELSE <<Head(hits)>>

NewOverworldLabel == "NEW PORTAL (overworld)"

NewNetherLabel == "NEW PORTAL (nether)"

\* Lines 214-217.
insert_new(ps, overworld_pos, nether_pos) ==
  Append(Append(ps, Portal(NewOverworldLabel, overworld_pos, FALSE)),
         Portal(NewNetherLabel, nether_pos, TRUE))

\* list.pop(): the list without its last element.
pop(ps) == SubSeq(ps, 1, Len(ps) - 1)

rollback_once(ps) == pop(ps)

rollback_front(ps) == Tail(Tail(ps))

\* Lines 219-220.
rollback(ps) == pop(pop(ps))

\* Lines 222-223.
strip_new(new_connections) ==
  Del(Del(new_connections, NewOverworldLabel), NewNetherLabel)

\* Lines 225-230: one [old, new] entry per key of the baseline whose value
\* changed, in the baseline's key order.
RECURSIVE violations_of(_, _, _)
violations_of(keys, conns, new_conns) ==
  IF keys = <<>>
    THEN <<>>
    ELSE LET key == Head(keys)
         IN  (IF Get(conns, key) # Get(new_conns, key)
                THEN << <<key \o " -> " \o Get(conns, key),
                          key \o " -> " \o Get(new_conns, key)>> >>
                ELSE <<>>)
             \o violations_of(Tail(keys), conns, new_conns)

\* Lines 232-239.
RECURSIVE violation_lines(_, _)
violation_lines(violations, counter) ==
  IF violations = <<>>
    THEN <<>>
    ELSE <<"VIOLATION #" \o ToString(counter + 1),
           "Old: " \o Head(violations)[1],
           "New: " \o Head(violations)[2], "">>
         \o violation_lines(Tail(violations), counter + 1)

\* The offsets the loops of lines 263-265 visit, in order: x over
\* range(-t, t+1), y and z over the two-element tuple (-t, t+1).
scan_offsets(t) ==
  [i \in 1..((2 * t + 1) * 4) |->
     Position(-t + ((i - 1) \div 4),
              IF ((i - 1) \div 2) % 2 = 0 THEN -t ELSE t + 1,
              IF (i - 1) % 2 = 0 THEN -t ELSE t + 1)]

(***************************************************************************)
(* State.                                                                  *)
(***************************************************************************)
VARIABLES
  portals,      \* the global list `portals` (line 28)
  loaded,       \* history: the list as the loader left it (lines 51-56)
  args,         \* the parsed command line (line 25)
  pc,           \* where the program is
  call,         \* the running check_new_portal call: its arguments, and
                \* two history fields (was the list appended to, how many
                \* connection maps were computed)
  scan,         \* how many offsets of the scan loop have been started
  valid_overworld_positions,   \* line 258
  connections,      \* the local `connections` of the running function
  new_connections,  \* the local `new_connections` of check_new_portal
  bidirectional,    \* the local `bidirectional` of print_connections
  result,       \* the value the last check_new_portal call returned
  out,          \* the lines printed so far
  link          \* the link resolver applied to one portal: <<>> or a record

vars == <<portals, loaded, args, pc, call, scan, valid_overworld_positions,
          connections, new_connections, bidirectional, result, out, link>>

NoCall == <<>>

(***************************************************************************)
(* Inputs: the data file and the command line.                             *)
(***************************************************************************)
SeqsUpTo(S, n) == UNION {[1..k -> S] : k \in 0..n}

\* Lines 51-56: overworld portals first, then nether portals.  Labels are
\* distinct and none is a label check_new_portal makes up; the model names
\* a portal by its place in its section of the file.
load(overworld_portals, nether_portals) ==
     [i \in 1..Len(overworld_portals) |->
        Portal("o" \o ToString(i), overworld_portals[i], FALSE)]
  \o [i \in 1..Len(nether_portals) |->
        Portal("n" \o ToString(i), nether_portals[i], TRUE)]

LoadedLists(OwPool, NePool, n) ==
  {load(o, e) : <<o, e>> \in
     {pair \in SeqsUpTo(OwPool, n) \X SeqsUpTo(NePool, n) :
        Len(pair[1]) + Len(pair[2]) <= n}}

\* Positions of the portals in the data.
OverworldPool == {Position(0, 64, 0), Position(100, 64, 0),
                  Position(1000, 64, 0)}

NetherPool == {Position(0, 64, 0), Position(2, 64, 0), Position(-3, 70, 40)}

\* The -p arguments of show_connections: none, known names, an unknown one.
ShowArgs ==
  {[command |-> "show_connections", portal |-> p] :
     p \in {None, <<"o1">>, <<"n1">>, <<"nowhere">>}}

\* The "-" argument for nether_coords.
Dash == <<>>

ProposedOverworld == {<<0, 64, 0>>, <<8, 64, 0>>, <<1000, 64, 0>>}

ProposedNether == {Dash, <<1, 64, 0>>, <<2, 64, 0>>, <<125, 64, 0>>}

CheckArgs ==
  {[command |-> "check_new_portal", overworld_coords |-> o,
    nether_coords |-> e, threshold |-> t] :
     o \in ProposedOverworld, e \in ProposedNether, t \in 0..MaxThreshold}

InitLocals ==
  /\ loaded = portals
  /\ pc = "main"
  /\ call = NoCall
  /\ scan = 0
  /\ valid_overworld_positions = <<>>
  /\ connections = EmptyDict
  /\ new_connections = EmptyDict
  /\ bidirectional = <<>>
  /\ result = FALSE
  /\ out = <<>>
  /\ link = <<>>

Init ==
  /\ portals \in LoadedLists(OverworldPool, NetherPool, MaxPortals)
  /\ args \in ShowArgs \cup CheckArgs
  /\ InitLocals

(***************************************************************************)
(* show_connections (lines 245-251, 131-184).                              *)
(***************************************************************************)
\* The target print_connections is called with.
target == IF args.portal = None
            THEN None
            ELSE get_portal_by_name(args.portal[1], portals)

\* Lines 245-251.  An unknown name raises in get_portal_by_name (line 112).
MainShow ==
  /\ pc = "main"
  /\ args.command = "show_connections"
  /\ IF args.portal # None /\ target = None
       THEN pc' = "Exception" /\ out' = out
       ELSE /\ pc' = "print_overworld"
            /\ out' = out \o (IF target = None THEN <<>>
                              ELSE <<PortalText(target[1])>>)
  /\ UNCHANGED <<loaded, portals, args, call, scan, valid_overworld_positions,
                 connections, new_connections, bidirectional, result, link>>

\* Lines 135-140.
PrintOverworld ==
  /\ pc = "print_overworld"
  /\ connections' = fill_connections(EmptyDict, overworld_of(portals), portals)
  /\ bidirectional' = <<>>
  /\ pc' = "print_nether"
  /\ UNCHANGED <<loaded, portals, args, call, scan, valid_overworld_positions,
                 new_connections, result, out, link>>

\* Lines 142-149.
PrintNether ==
  /\ pc = "print_nether"
  /\ LET st == nether_loop([connections |-> connections,
                            bidirectional |-> bidirectional,
                            raised |-> FALSE],
                           nether_of(portals), portals)
     IN  /\ connections' = st.connections
         /\ bidirectional' = st.bidirectional
         /\ pc' = IF st.raised THEN "AttributeError" ELSE "print_filter"
  /\ UNCHANGED <<loaded, portals, args, call, scan, valid_overworld_positions,
                 new_connections, result, out, link>>

\* Lines 151-159.
PrintFilter ==
  /\ pc = "print_filter"
  /\ LET st == filter_target([connections |-> connections,
                              bidirectional |-> bidirectional], target)
     IN  /\ connections' = st.connections
         /\ bidirectional' = st.bidirectional
  /\ pc' = "print_render"
  /\ UNCHANGED <<loaded, portals, args, call, scan, valid_overworld_positions,
                 new_connections, result, out, link>>

\* Lines 161-184.
PrintRender ==
  /\ pc = "print_render"
  /\ out' = out \o render_lines(connections, bidirectional, portals)
  /\ pc' = "exit"
  /\ UNCHANGED <<loaded, portals, args, call, scan, valid_overworld_positions,
                 connections, new_connections, bidirectional, result, link>>

(***************************************************************************)
(* check_new_portal, the command (lines 252-274) and the function (lines   *)
(* 190-243).                                                               *)
(***************************************************************************)
overworld_pos == parse_coords(args.overworld_coords)

\* Lines 254-256.
nether_pos ==
  IF args.nether_coords = Dash
    THEN LET converted == convert_to_nether(overworld_pos)
         IN  Position(converted.x, 128, converted.z)
    ELSE parse_coords(args.nether_coords)

Frame(ow, ne, silent) ==
  [overworld_pos |-> ow, nether_pos |-> ne, silent |-> silent,
   appended |-> FALSE, maps |-> 0]

\* Lines 252-259: the first call, silent when a threshold is given.
MainCheck ==
  /\ pc = "main"
  /\ args.command = "check_new_portal"
  /\ call' = Frame(overworld_pos, nether_pos, args.threshold # 0)
  /\ pc' = "check_enter"
  /\ UNCHANGED <<loaded, portals, args, scan, valid_overworld_positions, connections,
                 new_connections, bidirectional, result, out, link>>

\* Lines 195-211: the header, the window test, the collision loop.
CheckGuard ==
  /\ pc = "check_enter"
  /\ LET ow == call.overworld_pos
         ne == call.nether_pos
         hit == first_collision(portals, ow, ne)
         header == print_if(call.silent, header_lines(ow, ne))
     IN  IF outside_window(ow, ne)
           THEN /\ out' = out \o header \o print_if(call.silent,
                     <<"VIOLATION: Invalid nether position. Must be within 16 XZ blocks after converting the overworld position.">>)
                /\ result' = FALSE
                /\ pc' = "check_return"
           ELSE IF hit # None
             THEN /\ out' = out \o header \o print_if(call.silent,
                       <<"VIOLATION: Collision with portal " \o hit[1].label>>)
                  /\ result' = FALSE
                  /\ pc' = "check_return"
             ELSE /\ out' = out \o header
                  /\ result' = result
                  /\ pc' = "check_baseline"
  /\ UNCHANGED <<loaded, portals, args, call, scan, valid_overworld_positions,
                 connections, new_connections, bidirectional, link>>

\* Line 213.
CheckBaseline ==
  /\ pc = "check_baseline"
  /\ connections' = get_connections(portals)
  /\ call' = [call EXCEPT !.maps = @ + 1]
  /\ pc' = "check_insert"
  /\ UNCHANGED <<loaded, portals, args, scan, valid_overworld_positions,
                 new_connections, bidirectional, result, out, link>>

\* Lines 214-217.
CheckInsert ==
  /\ pc = "check_insert"
  /\ portals' = insert_new(portals, call.overworld_pos, call.nether_pos)
  /\ call' = [call EXCEPT !.appended = TRUE]
  /\ pc' = "check_recompute"
  /\ UNCHANGED <<loaded, args, scan, valid_overworld_positions, connections,
                 new_connections, bidirectional, result, out, link>>

\* Line 218.
CheckRecompute ==
  /\ pc = "check_recompute"
  /\ new_connections' = get_connections(portals)
  /\ call' = [call EXCEPT !.maps = @ + 1]
  /\ pc' = "check_rollback"
  /\ UNCHANGED <<loaded, portals, args, scan, valid_overworld_positions, connections,
                 bidirectional, result, out, link>>

\* Lines 219-220.
CheckRollback ==
  /\ pc = "check_rollback"
  /\ portals' = rollback(portals)
  /\ pc' = "check_diff"
  /\ UNCHANGED <<loaded, args, call, scan, valid_overworld_positions, connections,
                 new_connections, bidirectional, result, out, link>>

\* The keys of the baseline outside every mutual pair.
diff_keys_unpaired(conns) ==
  SelectSeq(Keys(conns), LAMBDA k :
    ~(Has(conns, Get(conns, k)) /\ Get(conns, Get(conns, k)) = k))

\* The keys line 226 iterates.
diff_keys(conns) == Keys(conns)

\* What check_new_portal(overworld_pos, nether_pos) returns when called on
\* the list ps (lines 200-243).
check_new_portal(ps, ow, ne) ==
  /\ ~outside_window(ow, ne)
  /\ first_collision(ps, ow, ne) = None
  /\ violations_of(diff_keys(get_connections(ps)), get_connections(ps),
                   strip_new(get_connections(insert_new(ps, ow, ne)))) = <<>>

\* Lines 222-243; the locals end with the call.
CheckDiff ==
  /\ pc = "check_diff"
  /\ LET stripped == strip_new(new_connections)
         violations == violations_of(diff_keys(connections), connections, stripped)
     IN  IF Len(violations) > 0
           THEN /\ out' = out \o print_if(call.silent,
                                          violation_lines(violations, 0))
                /\ result' = FALSE
           ELSE /\ out' = out \o print_if(call.silent, <<"OK">>)
                /\ result' = TRUE
  /\ connections' = EmptyDict
  /\ new_connections' = EmptyDict
  /\ pc' = "check_return"
  /\ UNCHANGED <<loaded, portals, args, call, scan, valid_overworld_positions,
                 bidirectional, link>>

\* Lines 270-274.
report_lines(positions, ne) ==
  IF Len(positions) > 0
    THEN [i \in 1..Len(positions) |->
            "VALID: Overworld " \o CoordsText(positions[i])
              \o " <-> Nether " \o CoordsText(ne)]
    ELSE <<"No valid positions found">>

\* The command after a call returned (lines 259-274): keep the position if
\* the call returned True; then start the call for the next offset, or,
\* the loops over, report and exit.
ScanNext ==
  /\ pc = "check_return"
  /\ LET offsets == IF args.threshold # 0
                      THEN scan_offsets(args.threshold) ELSE <<>>
         kept == IF result
                   THEN Append(valid_overworld_positions, call.overworld_pos)
                   ELSE valid_overworld_positions
     IN  /\ valid_overworld_positions' = kept
         /\ IF scan < Len(offsets)
              THEN LET d == offsets[scan + 1]
                       new_pos == Position(overworld_pos.x + d.x,
                                           overworld_pos.y + d.y,
                                           overworld_pos.z + d.z)
                   IN  /\ call' = Frame(new_pos, nether_pos, TRUE)
                       /\ scan' = scan + 1
                       /\ pc' = "check_enter"
                       /\ out' = out
              ELSE /\ call' = NoCall
                   /\ scan' = scan
                   /\ pc' = "exit"
                   /\ out' = out \o (IF args.threshold # 0
                                       THEN report_lines(kept, nether_pos)
                                       ELSE <<>>)
  /\ UNCHANGED <<loaded, portals, args, connections, new_connections, bidirectional,
                 result, link>>

Next ==
  \/ MainShow
  \/ PrintOverworld
  \/ PrintNether
  \/ PrintFilter
  \/ PrintRender
  \/ MainCheck
  \/ CheckGuard
  \/ CheckBaseline
  \/ CheckInsert
  \/ CheckRecompute
  \/ CheckRollback
  \/ CheckDiff
  \/ ScanNext

Spec == Init /\ [][Next]_vars

(***************************************************************************)
(* The scenario of three overworld portals and one nether portal.          *)
(***************************************************************************)
ScenarioPortals ==
  load(<<Position(0, 64, 0), Position(100, 64, 0), Position(1000, 64, 0)>>,
       <<Position(0, 64, 0)>>)

InitScenario ==
  /\ portals = ScenarioPortals
  /\ args \in ShowArgs \cup CheckArgs
  /\ InitLocals

SpecScenario == InitScenario /\ [][Next]_vars

(***************************************************************************)
(* The link resolver as a function: find_nether_connection applied to one  *)
(* portal of a list.  The lists are data as loaded, from pools that hold   *)
(* the edges of both tolerances, negative coordinates and candidates at    *)
(* equal distance, and, for the candidacy windows, every overworld x of    *)
(* -MaxCoord..MaxCoord against nether portals near the origin.             *)
(***************************************************************************)
LinkOverworldPool ==
  {Position(0, 64, 0), Position(8, 64, 0), Position(-8, 64, 0),
   Position(-1, 64, -1), Position(128, 64, 0), Position(135, 64, -128),
   Position(136, 64, 0), Position(-129, 64, 0)}

LinkNetherPool ==
  {Position(0, 64, 0), Position(1, 64, 0), Position(-1, 64, 0),
   Position(0, 60, 0), Position(0, 68, 0), Position(16, 64, -16),
   Position(17, 64, 0)}

WindowZ == {-136, -129, -128, 0, 128, 135, 136}

WindowPairs ==
  {load(<<Position(ax, 64, az)>>, <<Position(bx, 64, 0)>>) :
     ax \in -MaxCoord..MaxCoord, az \in WindowZ, bx \in {-1, 0, 1}}

InitLink ==
  /\ portals \in LoadedLists(LinkOverworldPool, LinkNetherPool, MaxLinkPortals)
                   \cup WindowPairs
  /\ args = [command |-> "none"]
  /\ InitLocals

\* find_nether_connection(portals[i]) (lines 90-105), with the list `valid`
\* of line 91.
Resolve(i) ==
  /\ pc = "main"
  /\ link' = [source |-> portals[i],
              valid |-> find_valid_portal_connections(portals[i], portals),
              destination |-> find_nether_connection(portals[i], portals)]
  /\ pc' = "exit"
  /\ UNCHANGED <<loaded, portals, args, call, scan, valid_overworld_positions,
                 connections, new_connections, bidirectional, result, out>>

NextLink == \E i \in 1..Len(portals) : Resolve(i)

SpecLink == InitLink /\ [][NextLink]_vars

(***************************************************************************)
(* Properties.                                                             *)
(***************************************************************************)
Range(f) == {f[i] : i \in DOMAIN f}

Labels(ps) == {p.label : p \in Range(ps)}

Last(seq) == seq[Len(seq)]

CheckCommand == args.command = "check_new_portal"

ShowCommand == args.command = "show_connections"

\* C1: after any sequence of check_new_portal calls, whatever their
\* outcomes, the portal list is the list as it was before the first call:
\* same length, same elements, same order.  (Between calls, from the
\* rollback of a call to its return, and when the command exits.)
C1_RollbackRestoresList ==
  (CheckCommand /\ pc \in {"check_enter", "check_diff", "check_return",
                           "exit"})
    => portals = loaded

\* A later call of a scan that appended to a non-empty list, found linkage
\* violations and returned.
C1_Witness ==
  /\ pc = "check_return"
  /\ scan >= 1
  /\ call.appended
  /\ ~result
  /\ Len(loaded) >= 2

(***************************************************************************)
(* C2, stated without the resolver's own scan: the candidates of a portal  *)
(* are taken by index, the winner is the least index among the candidates  *)
(* at the least distance.                                                  *)
(***************************************************************************)
Tolerance(p) == IF p.is_nether THEN 128 ELSE 16

CandidateIndexes(p, ps) ==
  {i \in 1..Len(ps) :
     /\ ps[i] # p
     /\ ps[i].is_nether # p.is_nether
     /\ abs(get_converted_coordinates(p).x - ps[i].position.x) <= Tolerance(p)
     /\ abs(get_converted_coordinates(p).z - ps[i].position.z) <= Tolerance(p)}

DistanceTo(p, ps, i) ==
  euclidean_dist(get_converted_coordinates(p), ps[i].position)

\* C2: find_nether_connection(p) is None exactly when p has no candidate
\* (a portal other than p, of the opposite space, within p's XZ tolerance
\* of p's converted position); otherwise it is a candidate at the least 3D
\* distance from p's converted position, and among the candidates at that
\* distance the one earliest in the list.
C2_NearestEarliestCandidate ==
  link # <<>> =>
    LET p == link.source
        C == CandidateIndexes(p, portals)
    IN  /\ (link.destination = None) <=> (C = {})
        /\ C # {} =>
             \E i \in C :
               /\ link.destination = <<portals[i]>>
               /\ portals[i].is_nether # p.is_nether
               /\ \A j \in C :
                    /\ DistanceTo(p, portals, i) <= DistanceTo(p, portals, j)
                    /\ DistanceTo(p, portals, j) = DistanceTo(p, portals, i)
                         => i <= j

\* A resolved portal with two candidates at different positions tied at
\* the least distance.
C2_Witness ==
  /\ link # <<>>
  /\ link.destination # None
  /\ LET p == link.source
         C == CandidateIndexes(p, portals)
     IN  \E i, j \in C :
           /\ i < j
           /\ link.destination = <<portals[i]>>
           /\ portals[i].position # portals[j].position
           /\ DistanceTo(p, portals, i) = DistanceTo(p, portals, j)

(***************************************************************************)
(* C3, C4: the graph print_connections builds.                             *)
(***************************************************************************)
\* Overworld portal a and nether portal b resolve to each other.
Mutual(a, b, ps) ==
  /\ ~a.is_nether
  /\ b.is_nether
  /\ find_nether_connection(a, ps) = <<b>>
  /\ find_nether_connection(b, ps) = <<a>>

Occurrences(seq, v) == Cardinality({i \in 1..Len(seq) : seq[i] = v})

\* The graph as built (after line 149), and, without a target, as printed.
GraphBuilt ==
  /\ ShowCommand
  /\ \/ pc = "print_filter"
     \/ pc \in {"print_render", "exit"} /\ args.portal = None

\* C3: in the graph print_connections builds, whenever overworld portal A
\* resolves to nether portal B and B resolves to A, the pair [A, B] is in
\* the bidirectional list exactly once and neither label is a key of the
\* connection map (which stays so through the target filter).
C3_MutualPairCollapsed ==
  (ShowCommand /\ pc \in {"print_filter", "print_render", "exit"}) =>
    \A a, b \in Range(portals) :
      Mutual(a, b, portals) =>
        /\ GraphBuilt =>
             Occurrences(bidirectional, <<a.label, b.label>>) = 1
        /\ ~Has(connections, a.label)
        /\ ~Has(connections, b.label)

\* A built graph with a mutual pair and a second nether portal that links
\* one way to the pair's overworld portal.
C3_Witness ==
  /\ GraphBuilt
  /\ pc = "exit"
  /\ \E a, b, c \in Range(portals) :
       /\ Mutual(a, b, portals)
       /\ c.is_nether
       /\ c # b
       /\ Has(connections, c.label)
       /\ Get(connections, c.label) = a.label

\* C4: when print_connections runs over a list in which some nether portal
\* has no candidate, the look-up of line 144 raises nothing, the build
\* completes, and that portal's entry is its "New portal near" placeholder.
C4_MissingCandidateTolerated ==
  \A b \in Range(portals) :
    (ShowCommand /\ b.is_nether /\ find_nether_connection(b, portals) = None)
      => /\ pc # "AttributeError"
         /\ pc = "print_filter" =>
              /\ Has(connections, b.label)
              /\ Get(connections, b.label) = NewPortalNear(b)

(***************************************************************************)
(* C5, C6: what a call of check_new_portal returns.                        *)
(***************************************************************************)
\* The running call got past the window test and the collision loop.
PassedGuards ==
  /\ ~outside_window(call.overworld_pos, call.nether_pos)
  /\ \A p \in Range(loaded) :
       /\ ~p.is_nether => p.position # call.overworld_pos
       /\ p.is_nether => p.position # call.nether_pos

\* The existing labels whose value differs between get_connections() of
\* the list and get_connections() of the list with the two new portals.
ChangedLabels ==
  LET before == get_connections(loaded)
      after == get_connections(
                 loaded \o <<Portal(NewOverworldLabel, call.overworld_pos, FALSE),
                             Portal(NewNetherLabel, call.nether_pos, TRUE)>>)
  IN  {l \in Labels(loaded) : Get(before, l) # Get(after, l)}

\* C5: for a proposed pair that passes the window check and the collision
\* check, check_new_portal returns True if and only if every existing
\* label, those of mutual pairs included, has the same value in
\* get_connections() before the two new portals are appended as with them
\* appended.
C5_TrueIffNoLabelChanged ==
  (pc = "check_return" /\ PassedGuards) => (result <=> ChangedLabels = {})

\* A call that returned False where the labels that changed are exactly the
\* two labels of a mutual pair.
C5_Witness ==
  /\ pc = "check_return"
  /\ PassedGuards
  /\ ~result
  /\ \E a, b \in Range(loaded) :
       /\ Mutual(a, b, loaded)
       /\ ChangedLabels = {a.label, b.label}

CollisionLine(label) == "VIOLATION: Collision with portal " \o label

WindowLine ==
  "VIOLATION: Invalid nether position. Must be within 16 XZ blocks after converting the overworld position."

\* The overworld portals of the data at the proposed overworld position.
OverworldAt(pos) ==
  SelectSeq(loaded, LAMBDA p : ~p.is_nether /\ p.position = pos)

\* No connection map was computed in the running call and the list was
\* not appended to.
BeforeAnyMap == call.maps = 0 /\ ~call.appended

\* C6 as claimed: whenever the proposed overworld position is the position
\* of an existing overworld portal, the call returns False with a collision
\* violation naming such a portal (printed unless the call is silent),
\* before any connection map is computed and with the list never appended.
C6_CollisionAlwaysReported ==
  (pc = "check_return" /\ OverworldAt(call.overworld_pos) # <<>>) =>
    /\ ~result
    /\ BeforeAnyMap
    /\ ~call.silent =>
         \E p \in Range(OverworldAt(call.overworld_pos)) :
           Last(out) = CollisionLine(p.label)

\* C6 as amended: whenever the proposed overworld position is the position
\* of an existing overworld portal, the call returns False before any
\* connection map is computed and with the list never appended to; the
\* violation (printed unless the call is silent) is the collision with the
\* first such portal of the list when the proposed nether position is
\* within the 16-block XZ window of the converted overworld position, and
\* the invalid-nether-position violation otherwise.
C6_CollisionAfterWindow ==
  (pc = "check_return" /\ OverworldAt(call.overworld_pos) # <<>>) =>
    /\ ~result
    /\ BeforeAnyMap
    /\ ~call.silent =>
         Last(out) = IF outside_window(call.overworld_pos, call.nether_pos)
                       THEN WindowLine
                       ELSE CollisionLine(
                              Head(OverworldAt(call.overworld_pos)).label)

\* A narrated call rejected for its collision with the first of two
\* overworld portals at the proposed position.
C6_Witness ==
  /\ pc = "check_return"
  /\ ~call.silent
  /\ Len(OverworldAt(call.overworld_pos)) = 2
  /\ ~outside_window(call.overworld_pos, call.nether_pos)
  /\ ~result
  /\ Last(out) = CollisionLine(Head(OverworldAt(call.overworld_pos)).label)

(***************************************************************************)
(* C7: the scenario, under SpecScenario.                                   *)
(***************************************************************************)
\* The placeholder text that names the position (x, y, z).
Placeholder(x, y, z) == "New portal near " \o PositionText(Position(x, y, z))

\* C7 as claimed: in the graph built for the scenario, o1 at (0,64,0) and
\* the nether portal n1 are a bidirectional pair, and o2 at (100,64,0) and
\* o3 at (1000,64,0) have no candidate and map to the placeholders that
\* name (12,64,0) and (125,64,0).
C7_TwoPlaceholders ==
  (ShowCommand /\ pc = "print_filter") =>
    /\ Occurrences(bidirectional, <<"o1", "n1">>) = 1
    /\ find_nether_connection(portals[2], portals) = None
    /\ find_nether_connection(portals[3], portals) = None
    /\ Has(connections, "o2")
    /\ Get(connections, "o2") = Placeholder(12, 64, 0)
    /\ Has(connections, "o3")
    /\ Get(connections, "o3") = Placeholder(125, 64, 0)

\* C7 as amended: o1 and n1 are a bidirectional pair; o2 at (100,64,0) has
\* n1 as a candidate (its converted x, 12, is within 16 of 0) and maps one
\* way to n1; o3 at (1000,64,0) has no candidate and maps to the
\* placeholder that names (125,64,0).
C7_OnePlaceholder ==
  (ShowCommand /\ pc = "print_filter") =>
    /\ bidirectional = << <<"o1", "n1">> >>
    /\ find_nether_connection(portals[2], portals) = <<portals[4]>>
    /\ find_nether_connection(portals[3], portals) = None
    /\ connections =
         << <<"o2", "n1">>,
            <<"o3", "New portal near Position(x=125, y=64, z=0)">> >>

\* The scenario's graph, built with no target.
C7_Witness ==
  /\ portals = ScenarioPortals
  /\ ShowCommand
  /\ args.portal = None
  /\ pc = "print_filter"
  /\ Len(connections) = 2

(***************************************************************************)
(* C8: the scan of the check_new_portal command.                           *)
(***************************************************************************)
\* The positions at offsets -r..r on each axis around pos.
Cuboid(pos, r) ==
  {Position(pos.x + dx, pos.y + dy, pos.z + dz) :
     dx \in -r..r, dy \in -r..r, dz \in -r..r}

\* C8: a scan with radius R > 0 reports as valid exactly the positions of
\* the full cuboid of offsets -R..R around the overworld position for which
\* check_new_portal(position, n) returns True on its own.
C8_ScanCoversCuboid ==
  (CheckCommand /\ pc = "exit" /\ args.threshold > 0) =>
    Range(valid_overworld_positions) =
      {pos \in Cuboid(overworld_pos, args.threshold) :
         check_new_portal(loaded, pos, nether_pos)}

(***************************************************************************)
(* C9: the values held in connection maps.                                 *)
(***************************************************************************)
\* The portals there are or were in the list during the run.
KnownPortals ==
  Range(portals) \cup Range(loaded)
    \cup (IF call = NoCall THEN {}
          ELSE {Portal(NewOverworldLabel, call.overworld_pos, FALSE),
                Portal(NewNetherLabel, call.nether_pos, TRUE)})

IsPlaceholder(v) == \E p \in KnownPortals : v = NewPortalNear(p)

Values(d) == {d[i][2] : i \in 1..Len(d)}

\* The recomputed map as the code holds it; at the comparison of lines
\* 226-227, without the two entries lines 222-223 delete.
ComparedMap ==
  IF pc = "check_diff" THEN strip_new(new_connections) ELSE new_connections

\* C9 as claimed: at every point of every operation, the comparison of the
\* two maps included, each value held in a connection map is a "New portal
\* near" placeholder or the label of a portal that is then in the portal
\* list.
C9_ValuesAreCurrentLabels ==
  \A v \in Values(connections) \cup Values(ComparedMap) :
    v \in Labels(portals) \/ IsPlaceholder(v)

\* C9 as amended: at every point of every operation, each value of the map
\* of show_connections and of the baseline map of check_new_portal is a
\* placeholder or the label of a portal then in the list; each value of the
\* map check_new_portal recomputes is a placeholder, the label of a portal
\* then in the list, or one of the two labels "NEW PORTAL (overworld)" and
\* "NEW PORTAL (nether)", whose portals have left the list when the two
\* maps are compared.
C9_ValuesAreCurrentOrNewLabels ==
  /\ \A v \in Values(connections) :
       v \in Labels(portals) \/ IsPlaceholder(v)
  /\ \A v \in Values(new_connections) :
       \/ v \in Labels(portals)
       \/ v \in {NewOverworldLabel, NewNetherLabel}
       \/ IsPlaceholder(v)

\* The moment of the comparison, with one existing portal redirected to a
\* new portal and another still linked to an existing portal.
C9_Witness ==
  /\ pc = "check_diff"
  /\ \E i, k \in 1..Len(new_connections) :
       /\ new_connections[i][1] \in Labels(portals)
       /\ new_connections[i][2] = NewNetherLabel
       /\ new_connections[k][1] \in Labels(portals)
       /\ new_connections[k][2] \in Labels(portals)

(***************************************************************************)
(* C10: the two candidacy windows, under SpecLink.                         *)
(***************************************************************************)
\* C10: for an overworld portal A and a nether portal B, if A is a
\* candidate of B (within 128 of B's position times 8) then B is a
\* candidate of A (within 16 of A's position divided by 8, rounded down).
C10_CandidacyOneWay ==
  (link # <<>> /\ link.source.is_nether) =>
    \A a \in Range(link.valid) :
      link.source \in Range(find_valid_portal_connections(a, portals))

\* A nether portal resolved with an overworld candidate on the very edge of
\* its window, 128 blocks from its converted position on both axes.
C10_Witness ==
  /\ link # <<>>
  /\ link.source.is_nether
  /\ \E a \in Range(link.valid) :
       /\ abs(a.position.x - 8 * link.source.position.x) = 128
       /\ abs(a.position.z - 8 * link.source.position.z) = 128
       /\ a.position.x < 0

====
